---- MODULE Spec2Model ----
(***************************************************************************)
(* files2Joplin.py: one run of main() over a directory of attachment       *)
(* files, producing a RAW import directory "joplin" of note records and    *)
(* (for 'joplin' links) attachment records.                                *)
(*                                                                         *)
(* Strings are sequences of one-character strings, so that split, strip,   *)
(* join and replace are computed character by character as Python does.    *)
(* File moves follow POSIX rename semantics.                               *)
(***************************************************************************)
EXTENDS Integers, Sequences, FiniteSets, TLC

\* ------------------------------------------------------------------ bounds
\* Size of the identifier space drawn from by os.urandom(16).hex().
IdSpace == 3
\* Largest number of entries in the input directory.
MaxFiles == 2

Ids == 1..IdSpace
NoId == 0

\* ------------------------------------------------------- string primitives
Last(s) == s[Len(s)]

AllButLast(s) == SubSeq(s, 1, Len(s) - 1)

Contains(s, c) == \E i \in 1..Len(s) : s[i] = c

FirstIndex(s, c) == CHOOSE i \in 1..Len(s) : s[i] = c /\ \A j \in 1..(i - 1) : s[j] # c

\* str.split(sep) for a one-character separator: a list of one or more fields.
RECURSIVE Split(_, _)
Split(s, c) ==
    IF ~Contains(s, c)
    THEN <<s>>
    ELSE LET i == FirstIndex(s, c)
         IN <<SubSeq(s, 1, i - 1)>> \o Split(SubSeq(s, i + 1, Len(s)), c)

\* sep.join(parts)
RECURSIVE Join(_, _)
Join(parts, c) ==
    IF Len(parts) = 0 THEN <<>>
    ELSE IF Len(parts) = 1 THEN parts[1]
    ELSE parts[1] \o <<c>> \o Join(Tail(parts), c)

Whitespace == {" ", "\n", "\t"}

\* str.strip(): leading and trailing whitespace removed.
RECURSIVE Strip(_)
Strip(s) ==
    IF Len(s) = 0 THEN s
    ELSE IF s[1] \in Whitespace THEN Strip(Tail(s))
    ELSE IF Last(s) \in Whitespace THEN Strip(AllButLast(s))
    ELSE s

\* file.replace(' ', '%20')
RECURSIVE ReplaceSpaces(_)
ReplaceSpaces(s) ==
    IF Len(s) = 0 THEN <<>>
    ELSE (IF s[1] = " " THEN <<"%", "2", "0">> ELSE <<s[1]>>) \o ReplaceSpaces(Tail(s))

Digits == <<"0", "1", "2", "3", "4", "5", "6", "7", "8", "9">>

\* str(cnt) for a non-negative integer
RECURSIVE IntStr(_)
IntStr(n) ==
    IF n < 10 THEN <<Digits[n + 1]>>
    ELSE IntStr(n \div 10) \o <<Digits[(n % 10) + 1]>>

\* ---------------------------------------------------------- pure functions
\* split_file_name(file): (extension, file_name)
split_file_name(f) ==
    LET split == Split(f, ".")
    IN [extension |-> <<".">> \o Last(split),
        file_name |-> Join(AllButLast(split), ".")]

\* The list tested by "extension in [...]" in write_note_file.
ImageExtensions ==
    { <<".", "p", "n", "g">>, <<".", "j", "p", "e", "g">>, <<".", "j", "p", "g">> }

\* start of a link: '![' for image types, '[' otherwise
LinkStart(extension) == IF extension \in ImageExtensions THEN "![" ELSE "["

\* get_attach_dir_list: each line stripped and split on ','
get_attach_dir_list(lines) ==
    [i \in 1..Len(lines) |-> Split(Strip(lines[i]), ",")]

\* Directory name as written into a link (write_note_file, lines 173-177).
LinkDirName(path) ==
    LET d0 == Strip(path)
        d1 == IF Contains(d0, "/") /\ Last(d0) # "/" THEN d0 \o <<"/">> ELSE d0
        d2 == IF Contains(d1, "\\") /\ Last(d1) # "\\" THEN d1 \o <<"\\">> ELSE d1
    IN d2

\* ----------------------------------------------------------- input values
A_TXT == <<"a", ".", "t", "x", "t">>
A_1_TXT == <<"a", "_", "1", ".", "t", "x", "t">>
A_PNG == <<"a", ".", "p", "n", "g">>
B_JPG == <<"b", " ", "c", ".", "d", ".", "j", "p", "g">>
README == <<"R", "E", "A", "D", "M", "E">>
S_D == <<"s", ".", "d">>
SUB == <<"s", "u", "b">>

\* Directory entries the input directory may hold: regular files and sub-directories.
Entries ==
    { [name |-> A_TXT, isDir |-> FALSE], [name |-> A_PNG, isDir |-> FALSE],
      [name |-> B_JPG, isDir |-> FALSE], [name |-> README, isDir |-> FALSE],
      [name |-> S_D, isDir |-> TRUE], [name |-> SUB, isDir |-> TRUE] }

\* Files the first manifest directory may already hold.
TargetNames == {A_TXT, A_1_TXT, A_PNG}

\* Manifest lines (as read from attach_dir_file, newline included).
L_WORK == <<"w", ",", "/", "d", "\n">>
L_HOME == <<"h", ",", " ", "e", "\\", "\n">>
L_MIXED == <<"m", ",", "/", "d", "\\", "e", "\n">>
L_BARE == <<"n", ",", "d", "\n">>
L_BAD == <<"x", "\n">>

Manifests ==
    { <<>>, <<L_WORK>>, <<L_WORK, L_HOME>>, <<L_WORK, L_BAD>>, <<L_BAD>>,
      <<L_MIXED>>, <<L_BARE, L_WORK>> }

\* Contents of joplin_directory. Identifiers are interchangeable, so one namespace
\* of each size stands for all of that size; at least one identifier is left free.
Namespaces == {1..k : k \in 0..(IdSpace - 1)}

\* attach_dir_file: the manifest's content, or no such file.
NoManifest == [exists |-> FALSE, lines |-> <<>>]
ManifestFile(lines) == [exists |-> TRUE, lines |-> lines]

\* ------------------------------------------------------------------ state
VARIABLES
    link_type,        \* 'joplin' or 'file'
    attach_dir_file,  \* the manifest file
    joplin_ids,       \* identifiers X with joplin_directory/X.md present
    inputDir,         \* entries of files_directory other than 'joplin'
    joplinKind,       \* files_directory/joplin: "none", "dir" or "file"
    resExists,        \* joplin/resources exists
    records,          \* joplin/<id>.md, per identifier
    resources,        \* joplin/resources/<id>: "none", "file" or "dir"
    dirExists,        \* the first manifest directory exists
    dirFiles,         \* names present in the first manifest directory
    pc,               \* position in main / write_note_file
    err,              \* exception that ended the run, "" if none
    attach_dir_list,  \* main's attach_dir_list
    file_list,        \* files of glob('*.*') not yet completed
    file,             \* main's loop variable (reassigned on rename)
    file_new,         \* main's file_new; <<>> while unbound
    file_path,        \* name under which the current file was placed
    rand_attach,      \* main's rand_attach
    rand_md,          \* write_note_file's rand_md
    allocated,        \* history: identifiers accepted by the two draw loops
    written,          \* history: record files written, in order
    moves,            \* history: moves into the first manifest directory
    start             \* history: the file system when main was called

vars == <<link_type, attach_dir_file, joplin_ids, inputDir, joplinKind, resExists,
          records, resources, dirExists, dirFiles, pc, err, attach_dir_list, file_list,
          file, file_new, file_path, rand_attach, rand_md, allocated, written, moves,
          start>>

inputs == <<link_type, attach_dir_file, joplin_ids, start>>
locals == <<attach_dir_list, file_list, file, file_new, file_path, rand_attach, rand_md>>
history == <<allocated, written, moves>>
fs == <<inputDir, joplinKind, resExists, records, resources, dirExists, dirFiles>>

Unbound == <<>>

NoRecord ==
    [kind |-> "none", complete |-> FALSE, title |-> <<>>, links |-> <<>>,
     filename |-> <<>>, id |-> NoId]

\* A record left in joplin/ by an earlier export.
OldRecord ==
    [kind |-> "note", complete |-> TRUE, title |-> <<"o", "l", "d">>, links |-> <<>>,
     filename |-> <<>>, id |-> 1]

FileSystem ==
    [inputDir |-> inputDir, joplinKind |-> joplinKind, resExists |-> resExists,
     records |-> records, resources |-> resources, dirExists |-> dirExists,
     dirFiles |-> dirFiles]

Init ==
    /\ link_type \in {"joplin", "file"}
    /\ joplin_ids \in Namespaces
    /\ inputDir \in {d \in SUBSET Entries : Cardinality(d) <= MaxFiles}
    /\ joplinKind \in {"none", "dir", "file"}
    /\ resExists = FALSE
    /\ records = [i \in Ids |-> IF joplinKind = "dir" /\ i = 1 THEN OldRecord ELSE NoRecord]
    /\ resources = [i \in Ids |-> "none"]
    /\ IF link_type = "file"
       THEN /\ attach_dir_file \in {NoManifest} \cup {ManifestFile(m) : m \in Manifests}
            /\ dirExists \in BOOLEAN
            /\ dirFiles \in (IF dirExists THEN SUBSET TargetNames ELSE {{}})
       ELSE /\ attach_dir_file = NoManifest
            /\ dirExists = FALSE
            /\ dirFiles = {}
    /\ pc = "get_attach_dir_list"
    /\ err = ""
    /\ attach_dir_list = <<>>
    /\ file_list = <<>>
    /\ file = <<>>
    /\ file_new = Unbound
    /\ file_path = <<>>
    /\ rand_attach = NoId
    /\ rand_md = NoId
    /\ allocated = <<>>
    /\ written = <<>>
    /\ moves = <<>>
    /\ start = FileSystem

\* --------------------------------------------------------------- helpers
Fail(e) == pc' = "failed" /\ err' = e

\* glob.glob('*.*'): names holding a period and not starting with one;
\* directories are matched like files.
Glob(dir) == {e.name : e \in {x \in dir : Contains(x.name, ".") /\ x.name[1] # "."}}

\* The orders in which glob may list a set of names.
Orders(S) ==
    {q \in [1..Cardinality(S) -> S] : \A i, j \in 1..Cardinality(S) : i # j => q[i] # q[j]}

\* The existence check left out: every drawn identifier is accepted.
IdTaken_Unchecked(id) == FALSE

\* os.path.exists(joplin_directory + '/' + id + '.md')
IdTaken(id) == id \in joplin_ids

\* The assertion on the joplin directory left out.
JoplinIsDir_Unchecked == FALSE

\* os.path.isdir('joplin')
JoplinIsDir == joplinKind = "dir"

\* os.path.exists(directory + '/' + name)
TargetExists(name) == dirExists /\ name \in dirFiles

\* The while loop of main, lines 298-301.
RECURSIVE RenameLoop(_, _, _, _, _)
RenameLoop(name, new, cnt, prefix, ext) ==
    IF TargetExists(name)
    THEN LET n == prefix \o <<"_">> \o IntStr(cnt) \o <<".">> \o ext
         IN RenameLoop(n, n, cnt + 1, prefix, ext)
    ELSE [name |-> name, file_new |-> new]

\* attach[1] raises IndexError on a line without a comma.
HasPath(attach) == Len(attach) >= 2

FileScheme == <<"f", "i", "l", "e", ":", "/", "/">>

\* The for loop of write_note_file, lines 167-183: the link lines written before
\* the first entry without a path, and whether the loop ran to its end.
RECURSIVE LinkLines(_, _, _)
LinkLines(list, f, st) ==
    IF Len(list) = 0 THEN [lines |-> <<>>, ok |-> TRUE]
    ELSE IF ~HasPath(list[1]) THEN [lines |-> <<>>, ok |-> FALSE]
    ELSE LET f2 == ReplaceSpaces(f)
             line == [start |-> st, text |-> Strip(list[1][1]),
                      url |-> FileScheme \o LinkDirName(list[1][2]) \o f2,
                      target |-> NoId]
             rest == LinkLines(Tail(list), f2, st)
         IN [lines |-> <<line>> \o rest.lines, ok |-> rest.ok]

\* The line written for a 'joplin' link, line 158.
JoplinLink(f, st, id) ==
    [start |-> st, text |-> f, url |-> <<":", "/">>, target |-> id]

\* ---------------------------------------------------------------- actions
\* main, lines 250-252: read the manifest for 'file' links.
GetAttachDirList ==
    /\ pc = "get_attach_dir_list"
    /\ IF link_type = "file"
       THEN IF attach_dir_file.exists
            THEN /\ attach_dir_list' = get_attach_dir_list(attach_dir_file.lines)
                 /\ pc' = "chdir"
                 /\ err' = err
            ELSE /\ Fail("FileNotFoundError")
                 /\ attach_dir_list' = attach_dir_list
       ELSE /\ pc' = "chdir"
            /\ UNCHANGED <<err, attach_dir_list>>
    /\ UNCHANGED <<inputs, fs, history, file_list, file, file_new, file_path,
                   rand_attach, rand_md>>

\* main, lines 255-270: list the files, refuse an existing joplin directory,
\* make the RAW directory.
MakeRawDirectory ==
    /\ pc = "chdir"
    /\ \E order \in Orders(Glob(inputDir)) :
          /\ file_list' = order
          /\ IF JoplinIsDir
             THEN /\ Fail("AssertionError")
                  /\ UNCHANGED <<joplinKind, resExists>>
             ELSE IF joplinKind # "none"
             THEN /\ Fail("FileExistsError")
                  /\ UNCHANGED <<joplinKind, resExists>>
             ELSE /\ joplinKind' = "dir"
                  /\ resExists' = (link_type = "joplin")
                  /\ pc' = "for"
                  /\ err' = err
    /\ UNCHANGED <<inputs, history, inputDir, records, resources, dirExists, dirFiles,
                   attach_dir_list, file, file_new, file_path, rand_attach, rand_md>>

\* main, line 273: take the next file, or finish.
NextFile ==
    /\ pc = "for"
    /\ IF file_list = <<>>
       THEN /\ pc' = "done"
            /\ file' = file
       ELSE /\ file' = Head(file_list)
            /\ pc' = IF link_type = "joplin" THEN "rand_attach" ELSE "move"
    /\ UNCHANGED <<inputs, fs, history, err, attach_dir_list, file_list, file_new,
                   file_path, rand_attach, rand_md>>

\* main, lines 278-280: draw identifiers until one has no record in joplin_directory.
DrawAttachId ==
    /\ pc = "rand_attach"
    /\ \E r \in Ids :
          /\ rand_attach' = r
          /\ IF IdTaken(r)
             THEN UNCHANGED <<pc, allocated>>
             ELSE /\ pc' = "write_attachment_file"
                  /\ allocated' = Append(allocated, r)
    /\ UNCHANGED <<inputs, fs, written, moves, err, attach_dir_list, file_list, file,
                   file_new, file_path, rand_md>>

AttachmentRecord(f, id) ==
    [kind |-> "resource", complete |-> TRUE, title |-> f, links |-> <<>>,
     filename |-> f, id |-> id]

\* write_attachment_file, lines 80-115: move the file to joplin/resources/<id>
\* and write joplin/<id>.md.
WriteAttachmentFile ==
    /\ pc = "write_attachment_file"
    /\ LET e == CHOOSE x \in inputDir : x.name = file
           dst == resources[rand_attach]
           rec == AttachmentRecord(file, rand_attach)
       IN IF dst = "file" /\ e.isDir
          THEN \* a directory cannot replace a file
               /\ Fail("FileExistsError")
               /\ UNCHANGED <<inputDir, resources, records, written>>
          ELSE /\ inputDir' = inputDir \ {e}
               /\ resources' = IF dst = "dir" THEN resources
                               ELSE [resources EXCEPT ![rand_attach] =
                                        IF e.isDir THEN "dir" ELSE "file"]
               /\ records' = [records EXCEPT ![rand_attach] = rec]
               /\ written' = Append(written,
                                    [id |-> rand_attach, src |-> Head(file_list),
                                     file |-> file, placed |-> <<>>, rec |-> rec])
               /\ pc' = "write_note_file"
               /\ err' = err
    /\ UNCHANGED <<inputs, joplinKind, resExists, dirExists, dirFiles, allocated, moves,
                   locals>>

\* main, lines 292-305: move the file into the first manifest directory, renaming
\* it while a file of that name exists there.
MoveFile ==
    /\ pc = "move"
    /\ IF Len(attach_dir_list) = 0 \/ ~HasPath(attach_dir_list[1])
       THEN /\ Fail("IndexError")
            /\ UNCHANGED <<inputDir, dirFiles, file, file_new, file_path, moves>>
       ELSE LET file_split == Split(file, ".")
                file_prefix == Join(AllButLast(file_split), ".")
                file_ext == Last(file_split)
                r == RenameLoop(file, file_new, 1, file_prefix, file_ext)
            IN IF ~dirExists
               THEN \* shutil.move into a directory that does not exist
                    /\ Fail("FileNotFoundError")
                    /\ file_new' = r.file_new
                    /\ file_path' = r.name
                    /\ UNCHANGED <<inputDir, dirFiles, file, moves>>
               ELSE /\ inputDir' = {x \in inputDir : x.name # file}
                    /\ dirFiles' = dirFiles \cup {r.name}
                    /\ file_new' = r.file_new
                    /\ file_path' = r.name
                    /\ moves' = Append(moves, [src |-> file, placed |-> r.name,
                                               before |-> dirFiles])
                    /\ IF r.file_new = Unbound
                       THEN /\ Fail("UnboundLocalError")
                            /\ file' = file
                       ELSE /\ file' = r.file_new
                            /\ pc' = "write_note_file"
                            /\ err' = err
    /\ UNCHANGED <<inputs, joplinKind, resExists, records, resources, dirExists,
                   allocated, written, attach_dir_list, file_list, rand_attach, rand_md>>

\* write_note_file, lines 133-137: exactly one of joplin_attach and
\* file_attach_list is given.
EnterWriteNoteFile ==
    /\ pc = "write_note_file"
    /\ LET not_joplin_attach == (link_type # "joplin")
           not_file_attach_list == (link_type # "file" \/ Len(attach_dir_list) = 0)
           n == (IF not_joplin_attach THEN 1 ELSE 0) + (IF not_file_attach_list THEN 1 ELSE 0)
       IN IF n = 1
          THEN pc' = "rand_md" /\ err' = err
          ELSE Fail("AssertionError")
    /\ UNCHANGED <<inputs, fs, history, locals>>

\* write_note_file, lines 140-142: draw identifiers until one has no record in
\* joplin_directory.
DrawNoteId ==
    /\ pc = "rand_md"
    /\ \E r \in Ids :
          /\ rand_md' = r
          /\ IF IdTaken(r)
             THEN UNCHANGED <<pc, allocated>>
             ELSE /\ pc' = "write_note"
                  /\ allocated' = Append(allocated, r)
    /\ UNCHANGED <<inputs, fs, written, moves, err, attach_dir_list, file_list, file,
                   file_new, file_path, rand_attach>>

\* write_note_file, lines 144-219: write joplin/<rand_md>.md.
WriteNote ==
    /\ pc = "write_note"
    /\ LET sp == split_file_name(file)
           st == LinkStart(sp.extension)
           ll == IF link_type = "joplin"
                 THEN [lines |-> <<JoplinLink(file, st, rand_attach)>>, ok |-> TRUE]
                 ELSE LinkLines(attach_dir_list, file, st)
           rec == [kind |-> "note", complete |-> ll.ok, title |-> sp.file_name,
                   links |-> ll.lines, filename |-> <<>>,
                   id |-> IF ll.ok THEN rand_md ELSE NoId]
       IN /\ records' = [records EXCEPT ![rand_md] = rec]
          /\ written' = Append(written,
                               [id |-> rand_md, src |-> Head(file_list), file |-> file,
                                placed |-> file_path, rec |-> rec])
          /\ dirExists' = (dirExists \/ link_type = "file")
          /\ IF ll.ok
             THEN /\ pc' = "for"
                  /\ err' = err
                  /\ file_list' = Tail(file_list)
             ELSE /\ Fail("IndexError")
                  /\ file_list' = file_list
    /\ UNCHANGED <<inputs, inputDir, joplinKind, resExists, resources, dirFiles,
                   allocated, moves, attach_dir_list, file, file_new, file_path,
                   rand_attach, rand_md>>

Next ==
    \/ GetAttachDirList
    \/ MakeRawDirectory
    \/ NextFile
    \/ DrawAttachId
    \/ WriteAttachmentFile
    \/ MoveFile
    \/ EnterWriteNoteFile
    \/ DrawNoteId
    \/ WriteNote

Spec == Init /\ [][Next]_vars

\* ------------------------------------------------------------------ claims
NoteEvents == {i \in 1..Len(written) : written[i].rec.kind = "note"}

RecordFiles == {i \in Ids : records[i].kind # "none"}

\* C1: every identifier a run allocates (rand_attach in main, rand_md in
\* write_note_file) differs from every identifier that has a record in
\* joplin_directory when it is allocated.
C1_AllocatedNotInNamespace ==
    \A i \in 1..Len(allocated) : allocated[i] \notin joplin_ids

\* C1 witness: a finished run that allocated identifiers against a non-empty namespace.
C1_Witness ==
    /\ pc = "done"
    /\ joplin_ids # {}
    /\ Len(allocated) >= 2

\* C2: within one run all allocated identifiers are pairwise distinct, so no
\* record file written to joplin/ is overwritten by a later record.
C2_PairwiseDistinct ==
    /\ \A i, j \in 1..Len(allocated) : i # j => allocated[i] # allocated[j]
    /\ \A i, j \in 1..Len(written) : i # j => written[i].id # written[j].id

\* Number of top-level regular files of the input directory when the run starts.
TopLevelFiles == Cardinality({e \in start.inputDir : ~e.isDir})

\* C3: after a run that completes without error joplin/ holds 2*F record files
\* for 'joplin' links and F for 'file' links, F the number of top-level regular
\* files of the input directory.
C3_RecordCount ==
    pc = "done" =>
        Cardinality(RecordFiles) =
            (IF link_type = "joplin" THEN 2 * TopLevelFiles ELSE TopLevelFiles)

\* <prefix>_<n>.<ext> for a file name
Renamed(name, n) ==
    LET parts == Split(name, ".")
    IN Join(AllButLast(parts), ".") \o <<"_">> \o IntStr(n) \o <<".">> \o Last(parts)

\* C4: for 'file' links each file is placed in the first manifest directory under
\* its own name when that name is free, otherwise under <prefix>_<n>.<ext> for the
\* smallest n >= 1 that is free; and every link line of the file's note names the
\* file by the name under which it was placed.
C4_PlacedNameIsLinked ==
    /\ \A i \in 1..Len(moves) :
          LET m == moves[i]
          IN IF m.src \notin m.before
             THEN m.placed = m.src
             ELSE \E n \in 1..(Cardinality(m.before) + 1) :
                     /\ m.placed = Renamed(m.src, n)
                     /\ m.placed \notin m.before
                     /\ \A k \in 1..(n - 1) : Renamed(m.src, k) \in m.before
    /\ \A i \in NoteEvents :
          link_type = "file" =>
             \A k \in 1..Len(written[i].rec.links) :
                written[i].rec.links[k].url =
                    FileScheme \o LinkDirName(attach_dir_list[k][2])
                               \o ReplaceSpaces(written[i].placed)

\* C5 as stated: when joplin/ exists at the start, the run fails with the
\* precondition error (the assertion of main) and the file system is as it was.
C5_FailsWithPreconditionError ==
    start.joplinKind = "dir" =>
        /\ FileSystem = start
        /\ pc \in {"get_attach_dir_list", "chdir", "failed"}
        /\ pc = "failed" => err = "AssertionError"

\* C5 amended: when joplin/ exists at the start, the run fails before creating a
\* directory, writing a record or moving a file, and joplin/ is left as it was;
\* the failure is the assertion of main, except that for 'file' links with a
\* manifest that cannot be opened the run fails on opening the manifest.
C5_FailsBeforeAnyChange ==
    start.joplinKind = "dir" =>
        /\ FileSystem = start
        /\ pc \in {"get_attach_dir_list", "chdir", "failed"}
        /\ pc = "failed" =>
              err = (IF link_type = "file" /\ ~attach_dir_file.exists
                     THEN "FileNotFoundError" ELSE "AssertionError")

\* C5 witness: a run over a directory holding files and an earlier export has
\* been refused by the assertion.
C5_Witness ==
    /\ start.joplinKind = "dir"
    /\ Glob(start.inputDir) # {}
    /\ records[1] = OldRecord
    /\ pc = "failed"
    /\ err = "AssertionError"

\* C6: every link line of every note uses the embedding form '![' exactly when
\* the extension of the note's file is .png, .jpg or .jpeg.
C6_EmbedIffImage ==
    \A i \in NoteEvents :
       \A k \in 1..Len(written[i].rec.links) :
          (written[i].rec.links[k].start = "![")
             <=> (split_file_name(written[i].src).extension \in ImageExtensions)

\* C7: every note record in joplin/ has exactly one link to a managed attachment
\* ('joplin' links) or one file link per manifest entry, at least one ('file'
\* links); the identifier of a managed link is that of exactly one attachment
\* record, written for the same file.
C7_OneLinkMode ==
    \A i \in RecordFiles :
       LET rec == records[i]
       IN (rec.kind = "note" /\ rec # start.records[i]) =>
            IF link_type = "joplin"
            THEN /\ Len(rec.links) = 1
                 /\ rec.links[1].target \in Ids
                 /\ records[rec.links[1].target].kind = "resource"
                 /\ records[rec.links[1].target].filename = rec.links[1].text
            ELSE /\ Len(rec.links) >= 1
                 /\ Len(rec.links) = Len(attach_dir_list)
                 /\ \A k \in 1..Len(rec.links) : rec.links[k].target = NoId

\* A manifest line that is a (label, path) pair.
IsPair(line) == Len(Split(Strip(line), ",")) = 2

BadManifest ==
    \/ ~attach_dir_file.exists
    \/ \E k \in 1..Len(attach_dir_file.lines) : ~IsPair(attach_dir_file.lines[k])

\* C8: for 'file' links, a missing manifest or a manifest with a line that is not
\* a (label, path) pair makes the run fail, whatever the input directory holds.
C8_BadManifestFails ==
    (link_type = "file" /\ BadManifest) => pc # "done"

\* The name without its last period and what follows it.
RECURSIVE DropExtension(_)
DropExtension(name) ==
    IF Len(name) = 0 THEN name
    ELSE IF Last(name) = "." THEN AllButLast(name)
    ELSE DropExtension(AllButLast(name))

\* C9: the title of every note is the name of its source file with the trailing
\* .<extension> removed, also when the file was renamed on a collision.
C9_TitleFromSourceName ==
    \A i \in NoteEvents : written[i].rec.title = DropExtension(written[i].src)

Separators == {"/", "\\"}

RECURSIVE DropTrailingSeparators(_)
DropTrailingSeparators(p) ==
    IF Len(p) > 0 /\ Last(p) \in Separators
    THEN DropTrailingSeparators(AllButLast(p))
    ELSE p

\* d is path normalised to end with exactly one separator of a style found in path.
NormalisedDir(d, path) ==
    /\ Len(d) >= 1
    /\ Last(d) \in Separators
    /\ Contains(path, Last(d))
    /\ AllButLast(d) = DropTrailingSeparators(path)

\* C10: in every file link the directory part is the manifest path normalised to
\* end with exactly one separator of the style present in the path, followed by
\* the file name with each space replaced by %20.
C10_LinkDirectoryNormalised ==
    \A i \in NoteEvents :
       link_type = "file" =>
          \A k \in 1..Len(written[i].rec.links) :
             \E n \in 0..Len(written[i].rec.links[k].url) :
                LET url == written[i].rec.links[k].url
                    d == SubSeq(url, Len(FileScheme) + 1, n)
                IN /\ n >= Len(FileScheme)
                   /\ SubSeq(url, 1, Len(FileScheme)) = FileScheme
                   /\ NormalisedDir(d, Strip(attach_dir_list[k][2]))
                   /\ SubSeq(url, n + 1, Len(url)) = ReplaceSpaces(written[i].file)

====
